---------------------------- MODULE Spec2Model ----------------------------
(***************************************************************************)
(* Trusted Advisor remediation handlers (vanhoangkha/trusted-advisor-tools) *)
(* as a state machine.  One Lambda function is deployed per behaviour: Init *)
(* picks the handler, its process-wide configuration (the environment      *)
(* variables read at import) and the state of the cloud resource it acts   *)
(* on.  One action per handler models one whole invocation: the event is   *)
(* drawn from a bounded set, every provider call's outcome is drawn from   *)
(* what the provider can answer in the resource's current state, and the   *)
(* resource is left as the calls left it.                                  *)
(* A second specification, SpecConc, runs two invocations for the same     *)
(* finding concurrently, one provider call per step.                       *)
(***************************************************************************)
EXTENDS Integers, Sequences, FiniteSets, TLC

VARIABLES
    handler,    \* which Lambda function this process is
    cfg,        \* its environment-sourced configuration (immutable)
    aws,        \* the provider-side state of the target resources
    pre,        \* aws as it was when the last invocation started
    inv,        \* the last invocation: event, provider calls, result
    procs       \* the invocations running concurrently, <<>> when they run one at a time

vars == <<handler, cfg, aws, pre, inv, procs>>

-----------------------------------------------------------------------------
(* Bounds of the model *)

MaxDaysLen == 3
MaxRules == 2

-----------------------------------------------------------------------------
(* Python values *)

\* None, for values modelled as TLA+ strings
None == "None"
\* None, for values modelled as sequences of characters
NoneSeq == <<"None">>

\* dict.get(k, default)
Get(d, k, default) == IF k \in DOMAIN d THEN d[k] ELSE default

\* `k in d`
Has(d, k) == k \in DOMAIN d

\* the empty dict {}
EmptyDict == <<>>

\* a dict with the single key k
Dict1(k, v) == [x \in {k} |-> v]

\* `not v` for an optional str
Falsy(v) == v = None \/ v = ""

\* `not v` for an optional str held as a sequence of characters
FalsySeq(v) == v = NoneSeq \/ v = <<>>

\* all sequences over S of length at most n
RECURSIVE SeqsUpTo(_, _)
SeqsUpTo(S, n) ==
    IF n = 0 THEN {<<>>}
    ELSE LET shorter == SeqsUpTo(S, n - 1)
         IN shorter \cup {Append(s, c) : s \in shorter, c \in S}

Digits == {"0", "1", "2", "3", "4", "5", "6", "7", "8", "9"}

DigitVal(c) ==
    CASE c = "0" -> 0 [] c = "1" -> 1 [] c = "2" -> 2 [] c = "3" -> 3
      [] c = "4" -> 4 [] c = "5" -> 5 [] c = "6" -> 6 [] c = "7" -> 7
      [] c = "8" -> 8 [] c = "9" -> 9

\* str.lstrip(ch)
RECURSIVE LStrip(_, _)
LStrip(s, ch) ==
    IF s # <<>> /\ Head(s) = ch THEN LStrip(Tail(s), ch) ELSE s

\* str.rstrip(ch)
RECURSIVE RStrip(_, _)
RStrip(s, ch) ==
    IF s # <<>> /\ s[Len(s)] = ch THEN RStrip(SubSeq(s, 1, Len(s) - 1), ch) ELSE s

\* str.strip(ch): removes ch from both ends only
Strip(s, ch) == RStrip(LStrip(s, ch), ch)

\* the digits of s read as a decimal number
RECURSIVE DecimalVal(_)
DecimalVal(s) ==
    IF s = <<>> THEN 0
    ELSE 10 * DecimalVal(SubSeq(s, 1, Len(s) - 1)) + DigitVal(s[Len(s)])

AllDigits(s) == s # <<>> /\ \A i \in 1..Len(s) : s[i] \in Digits

\* whether int(s) succeeds: an optional sign, then digits
IsIntLiteral(s) ==
    IF s # <<>> /\ Head(s) \in {"+", "-"} THEN AllDigits(Tail(s)) ELSE AllDigits(s)

\* int(s), for s with IsIntLiteral(s)
PyInt(s) ==
    IF Head(s) = "-" THEN 0 - DecimalVal(Tail(s))
    ELSE IF Head(s) = "+" THEN DecimalVal(Tail(s))
    ELSE DecimalVal(s)

-----------------------------------------------------------------------------
(* Invocation results and provider calls *)

\* `return {'statusCode': code, 'body': body}`; code "none" when the returned
\* dict carries no statusCode
Ret(code, body) == [raised |-> FALSE, exc |-> "", statusCode |-> code, body |-> body]

\* an exception leaving the handler
Raise(exc) == [raised |-> TRUE, exc |-> exc, statusCode |-> "none", body |-> ""]

NoResult == [raised |-> FALSE, exc |-> "", statusCode |-> "none", body |-> "not invoked"]

\* one provider (or webhook) call the handler made and how it ended:
\* exc = "" on success, else the exception class, with the error code
Call(api, exc, code) == [api |-> api, exc |-> exc, code |-> code]

\* what one invocation did: its calls in order, its result, the provider state it left
Out(calls, result, a) == [calls |-> calls, result |-> result, aws |-> a]

\* a provider answer: exc/code as in Call, the state the provider is left in
Ans(exc, code, a) == [exc |-> exc, code |-> code, aws |-> a]

\* an unexpected provider failure (throttling, internal error): a ClientError
\* whose code no handler expects; the resource is untouched
Fault(a) == Ans("ClientError", "InternalFailure", a)

MutatingApis ==
    {"rds.stop_db_instance", "rds.delete_db_instance", "iam.delete_access_key",
     "s3.put_bucket_versioning", "s3.put_bucket_lifecycle_configuration",
     "ec2.release_address", "iam.update_account_password_policy"}

NotifyApis == {"sns.publish", "urlopen"}

Mutations(calls) == {i \in 1..Len(calls) : calls[i].api \in MutatingApis}

Publishes(calls) == {i \in 1..Len(calls) : calls[i].api \in NotifyApis}

\* the invocation changed the resource: a mutating call of it succeeded
Applied(calls) == \E i \in Mutations(calls) : calls[i].exc = ""

-----------------------------------------------------------------------------
(* Idle RDS instances: src/AmazonRDSIdleDBInstances/src/remove_idle_rds_databases.py *)

DEFAULT_MIN_AGE == 14

\* the one database instance of the model
DbName == "db1"

\* rds.stop_db_instance(DBInstanceIdentifier=name)
rds_stop_db_instance(a, name) ==
    IF name = None THEN {Ans("ParamValidationError", "", a)}
    ELSE {Fault(a)} \cup
         (CASE name # DbName \/ a.db = "absent" ->
                   {Ans("ClientError", "DBInstanceNotFound", a)}
            [] name = DbName /\ a.db = "stopped" ->
                   {Ans("ClientError", "InvalidDBInstanceState", a)}
            [] name = DbName /\ a.db = "available" ->
                   {Ans("", "", [a EXCEPT !.db = "stopped"])})

\* rds.delete_db_instance(DBInstanceIdentifier=name, FinalDBSnapshotIdentifier=...)
rds_delete_db_instance(a, name) ==
    IF name = None THEN {Ans("ParamValidationError", "", a)}
    ELSE {Fault(a)} \cup
         (IF name # DbName \/ a.db = "absent"
          THEN {Ans("ClientError", "DBInstanceNotFound", a)}
          ELSE {Ans("", "", [a EXCEPT !.db = "absent", !.snapshot = TRUE])})

\* sns.publish(...)
sns_publish(a) == {Ans("", "", a), Ans("ClientError", "InternalFailure", a)}

\* _send_notification(message): the calls it makes; it never raises on a ClientError
_send_notification(a, c) ==
    IF ~c.SNS_TOPIC_ARN THEN {<<>>}
    ELSE {<<Call("sns.publish", r.exc, r.code)>> : r \in sns_publish(a)}

_delete_db_instance(name, a, c) ==
    UNION {
        LET call == Call("rds.delete_db_instance", r.exc, r.code) IN
        IF r.exc = ""
        THEN {Out(<<call>> \o n, Ret("200", "Database instance deleted"), r.aws) :
                  n \in _send_notification(r.aws, c)}
        ELSE IF r.exc = "ClientError" /\ r.code = "DBInstanceNotFound"
        THEN {Out(<<call>>, Ret("200", "DB instance not found"), r.aws)}
        ELSE {Out(<<call>>, Raise(r.exc), r.aws)}
      : r \in rds_delete_db_instance(a, name)}

\* a stop that also notifies when the instance was already stopped
_stop_db_instance_NotifyStopped(name, a, c) ==
    UNION {
        LET call == Call("rds.stop_db_instance", r.exc, r.code) IN
        IF r.exc = ""
        THEN {Out(<<call>> \o n, Ret("200", "Database instance stopped"), r.aws) :
                  n \in _send_notification(r.aws, c)}
        ELSE IF r.exc = "ClientError" /\ r.code = "DBInstanceNotFound"
        THEN {Out(<<call>>, Ret("200", "DB instance not found"), r.aws)}
        ELSE IF r.exc = "ClientError" /\ r.code = "InvalidDBInstanceState"
        THEN {Out(<<call>> \o n, Ret("200", "DB instance already stopped"), r.aws) :
                  n \in _send_notification(r.aws, c)}
        ELSE {Out(<<call>>, Raise(r.exc), r.aws)}
      : r \in rds_stop_db_instance(a, name)}

_stop_db_instance(name, a, c) ==
    UNION {
        LET call == Call("rds.stop_db_instance", r.exc, r.code) IN
        IF r.exc = ""
        THEN {Out(<<call>> \o n, Ret("200", "Database instance stopped"), r.aws) :
                  n \in _send_notification(r.aws, c)}
        ELSE IF r.exc = "ClientError" /\ r.code = "DBInstanceNotFound"
        THEN {Out(<<call>>, Ret("200", "DB instance not found"), r.aws)}
        ELSE IF r.exc = "ClientError" /\ r.code = "InvalidDBInstanceState"
        THEN {Out(<<call>>, Ret("200", "DB instance already stopped"), r.aws)}
        ELSE {Out(<<call>>, Raise(r.exc), r.aws)}
      : r \in rds_stop_db_instance(a, name)}

\* a threshold guard that also skips an instance idle for exactly MIN_AGE days
BelowThreshold_Inclusive(last_connection, c) == last_connection <= c.MIN_AGE

\* `if last_connection < MIN_AGE`
BelowThreshold(last_connection, c) == last_connection < c.MIN_AGE

\* the value of 'Days Since Last Connection' as the handler reads it
DaysField(event) ==
    Get(event["detail"]["check-item-detail"], "Days Since Last Connection", <<"0">>)

\* the structure every handler validates first
HasItemDetail(event) ==
    Has(event, "detail") /\ Has(Get(event, "detail", EmptyDict), "check-item-detail")

rds_lambda_handler(event, a, c) ==
    IF ~HasItemDetail(event)
    THEN {Out(<<>>, Raise("ValueError"), a)}
    ELSE LET details == event["detail"]["check-item-detail"]
             db_instance_name == Get(details, "DB Instance Name", None)
             days_since_connection == DaysField(event)
             stripped == Strip(days_since_connection, "+")
         IN IF ~IsIntLiteral(stripped)
            THEN {Out(<<>>, Raise("ValueError"), a)}
            ELSE IF BelowThreshold(PyInt(stripped), c)
            THEN {Out(<<>>, Ret("200", "Below threshold, no action taken"), a)}
            ELSE IF c.TERMINATION_METHOD = "delete"
            THEN _delete_db_instance(db_instance_name, a, c)
            ELSE _stop_db_instance(db_instance_name, a, c)

-----------------------------------------------------------------------------
(* Exposed access keys: src/ExposedAccessKeys/lambda_functions/delete_access_key_pair.py *)

\* the exposed key of the model and the user it belongs to
KeyUser == "alice"
KeyId == <<"A", "K", "I", "A", "0", "1", "2", "3", "4", "5">>

\* iam.delete_access_key(UserName=username, AccessKeyId=access_key_id)
iam_delete_access_key(a, username, access_key_id) ==
    {Fault(a)} \cup
    (IF a.key = "present" /\ username = KeyUser /\ access_key_id = KeyId
     THEN {Ans("", "", [a EXCEPT !.key = "absent"])}
     ELSE {Ans("ClientError", "NoSuchEntity", a)})

\* `access_key_id[:8] + '***'`
Mask(access_key_id) ==
    SubSeq(access_key_id, 1, IF Len(access_key_id) < 8 THEN Len(access_key_id) ELSE 8)
        \o <<"*", "*", "*">>

\* a log record: its message and the `extra` fields that can carry the key id
Log(msg, extra) == [msg |-> msg, extra |-> extra]

\* an invocation outcome together with the log records it wrote
OutLog(calls, result, a, logs) ==
    [calls |-> calls, result |-> result, aws |-> a, logs |-> logs]

\* delete_exposed_key_pair: the call it makes, what it logs and whether it
\* returns (exc = "") or raises
delete_exposed_key_pair(username, access_key_id, a) ==
    {LET call == Call("iam.delete_access_key", r.exc, r.code) IN
     IF r.exc = ""
     THEN [calls |-> <<call>>, exc |-> "", aws |-> r.aws,
           logs |-> <<Log("Access key deleted successfully",
                          Dict1("access_key_id", Mask(access_key_id)))>>]
     ELSE [calls |-> <<call>>, exc |-> r.exc, aws |-> r.aws,
           logs |-> <<Log("Failed to delete access key",
                          Dict1("access_key_id", Mask(access_key_id)))>>]
       : r \in iam_delete_access_key(a, username, access_key_id)}

key_lambda_handler(event, a) ==
    IF ~HasItemDetail(event)
    THEN {OutLog(<<>>, Raise("ValueError"), a,
                 <<Log("Invalid event structure", Dict1("event", event))>>)}
    ELSE IF ~Has(event, "account") \/ ~Has(event, "time")
    THEN {OutLog(<<>>, Raise("KeyError"), a, <<>>)}
    ELSE LET details == event["detail"]["check-item-detail"]
             username == Get(details, "User Name (IAM or Root)", None)
             access_key_id == Get(details, "Access Key ID", NoneSeq)
         IN IF Falsy(username) \/ FalsySeq(access_key_id)
            THEN {OutLog(<<>>, Raise("ValueError"), a,
                         <<Log("Missing required fields",
                               Dict1("access_key_id", access_key_id))>>)}
            ELSE {LET logs == <<Log("Processing exposed key deletion",
                                    Dict1("access_key_id", Mask(access_key_id)))>>
                                  \o d.logs
                  IN IF d.exc = ""
                     THEN OutLog(d.calls, Ret("none", "deleted_key"), d.aws, logs)
                     ELSE OutLog(d.calls, Raise(d.exc), d.aws, logs)
                    : d \in delete_exposed_key_pair(username, access_key_id, a)}

-----------------------------------------------------------------------------
(* Bucket versioning: src/S3BucketVersioning/lambda/app.py *)

\* the one bucket of the model
BucketName == "b1"

\* a provider answer carrying data
AnsData(exc, code, a, data) == [exc |-> exc, code |-> code, aws |-> a, data |-> data]

\* s3.get_bucket_tagging(Bucket=bucket_name): data is the keys of the TagSet
s3_get_bucket_tagging(a, bucket_name) ==
    {AnsData("ClientError", "InternalFailure", a, {}),
     AnsData("ClientError", "AccessDenied", a, {})} \cup
    (IF bucket_name # BucketName \/ ~a.bucket
     THEN {AnsData("ClientError", "NoSuchBucket", a, {})}
     ELSE IF a.tags = {}
     THEN {AnsData("ClientError", "NoSuchTagSet", a, {})}
     ELSE {AnsData("", "", a, a.tags)})

\* s3.put_bucket_versioning(Bucket=bucket_name, VersioningConfiguration={'Status': 'Enabled'})
s3_put_bucket_versioning(a, bucket_name) ==
    {Fault(a), Ans("ClientError", "AccessDenied", a)} \cup
    (IF bucket_name # BucketName \/ ~a.bucket
     THEN {Ans("ClientError", "NoSuchBucket", a)}
     ELSE {Ans("", "", [a EXCEPT !.versioning = "Enabled"])})

\* _has_exclusion_tag: the call it makes and the boolean it returns
_has_exclusion_tag(bucket_name, a, c) ==
    {LET call == Call("s3.get_bucket_tagging", r.exc, r.code) IN
     IF r.exc = ""
     THEN [calls |-> <<call>>, value |-> (c.EXCLUDE_TAG \in r.data)]
     ELSE IF r.code = "NoSuchTagSet"
     THEN [calls |-> <<call>>, value |-> FALSE]
     ELSE [calls |-> <<call>>, value |-> FALSE]
       : r \in s3_get_bucket_tagging(a, bucket_name)}

_enable_versioning(bucket_name, a) ==
    {LET call == Call("s3.put_bucket_versioning", r.exc, r.code) IN
     IF r.exc = ""
     THEN Out(<<call>>, Ret("200", "Bucket versioning enabled"), r.aws)
     ELSE IF r.exc = "ClientError" /\ r.code \in {"NoSuchBucket", "AccessDenied"}
     THEN Out(<<call>>, Ret("200", "Bucket not accessible"), r.aws)
     ELSE Out(<<call>>, Raise(r.exc), r.aws)
       : r \in s3_put_bucket_versioning(a, bucket_name)}

versioning_lambda_handler(event, a, c) ==
    IF ~HasItemDetail(event)
    THEN {Out(<<>>, Raise("ValueError"), a)}
    ELSE LET bucket_name == Get(event["detail"]["check-item-detail"], "Bucket Name", None)
         IN IF Falsy(bucket_name)
            THEN {Out(<<>>, Raise("ValueError"), a)}
            ELSE UNION {
                   IF t.value
                   THEN {Out(t.calls, Ret("200", "Bucket versioning intentionally disabled"), a)}
                   ELSE {Out(t.calls \o o.calls, o.result, o.aws) :
                             o \in _enable_versioning(bucket_name, a)}
                     : t \in _has_exclusion_tag(bucket_name, a, c)}

-----------------------------------------------------------------------------
(* Unassociated Elastic IPs: src/UnassociatedElasticIPs/remove_elastic_IP/app.py *)

\* the one address of the model and its allocation
EipAddress == "198.51.100.7"
AllocationId == "eipalloc-1"

LowerChar(ch) ==
    CASE ch = "F" -> "f" [] ch = "A" -> "a" [] ch = "L" -> "l" [] ch = "S" -> "s"
      [] ch = "E" -> "e" [] ch = "T" -> "t" [] ch = "R" -> "r" [] ch = "U" -> "u"
      [] OTHER -> ch

\* str.lower()
Lower(s) == [i \in 1..Len(s) |-> LowerChar(s[i])]

\* ec2.describe_addresses(PublicIps=[eip])['Addresses']: data is the list of
\* allocation ids
ec2_describe_addresses(a, eip) ==
    {AnsData("ClientError", "InternalFailure", a, <<>>)} \cup
    (IF eip = EipAddress /\ a.eip = "allocated"
     THEN {AnsData("", "", a, <<AllocationId>>)}
     ELSE {AnsData("ClientError", "InvalidAddress.NotFound", a, <<>>),
           AnsData("", "", a, <<>>)})

\* ec2.describe_tags(Filters=resource-id)['Tags']: data is the set of tags
ec2_describe_tags(a, allocation_id) ==
    {AnsData("ClientError", "InternalFailure", a, {}),
     AnsData("", "", a, IF allocation_id = AllocationId THEN a.eipTags ELSE {})}

\* ec2.release_address(DryRun=dry_run, AllocationId=allocation_id)
ec2_release_address(a, dry_run, allocation_id) ==
    {Fault(a)} \cup
    (IF allocation_id # AllocationId \/ a.eip # "allocated"
     THEN {Ans("ClientError", "InvalidAllocationID.NotFound", a)}
     ELSE IF dry_run
     THEN {Ans("ClientError", "DryRunOperation", a)}
     ELSE {Ans("", "", [a EXCEPT !.eip = "released"])})

\* _should_exclude: the call it makes and the boolean it returns
_should_exclude(allocation_id, a, c) ==
    {LET call == Call("ec2.describe_tags", r.exc, r.code) IN
     IF r.exc = ""
     THEN [calls |-> <<call>>,
           value |-> \E tag \in r.data :
                        /\ tag.Key = c.EXCLUDE_TAG_KEY
                        /\ Lower(tag.Value) = c.EXCLUDE_TAG_VALUE]
     ELSE [calls |-> <<call>>, value |-> FALSE]
       : r \in ec2_describe_tags(a, allocation_id)}

\* a release that tries once more after an unexpected error
_release_address_Retry(allocation_id, a, c) ==
    UNION {
      LET call == Call("ec2.release_address", r.exc, r.code) IN
      IF r.exc = ""
      THEN {Out(<<call>>, Ret("200", "Elastic IP released"), r.aws)}
      ELSE IF r.exc = "ClientError" /\ r.code = "DryRunOperation"
      THEN {Out(<<call>>, Ret("200", "DryRun: Would release"), r.aws)}
      ELSE {LET again == Call("ec2.release_address", r2.exc, r2.code) IN
            IF r2.exc = ""
            THEN Out(<<call, again>>, Ret("200", "Elastic IP released"), r2.aws)
            ELSE Out(<<call, again>>, Raise(r2.exc), r2.aws)
              : r2 \in ec2_release_address(r.aws, c.DRY_RUN, allocation_id)}
        : r \in ec2_release_address(a, c.DRY_RUN, allocation_id)}

_release_address(allocation_id, a, c) ==
    {LET call == Call("ec2.release_address", r.exc, r.code) IN
     IF r.exc = ""
     THEN Out(<<call>>, Ret("200", "Elastic IP released"), r.aws)
     ELSE IF r.exc = "ClientError" /\ r.code = "DryRunOperation"
     THEN Out(<<call>>, Ret("200", "DryRun: Would release"), r.aws)
     ELSE Out(<<call>>, Raise(r.exc), r.aws)
       : r \in ec2_release_address(a, c.DRY_RUN, allocation_id)}

eip_lambda_handler(event, a, c) ==
    IF ~HasItemDetail(event)
    THEN {Out(<<>>, Raise("ValueError"), a)}
    ELSE LET details == event["detail"]["check-item-detail"]
             region == Get(details, "Region", None)
             eip == Get(details, "IP Address", None)
         IN IF Falsy(region) \/ Falsy(eip)
            THEN {Out(<<>>, Raise("ValueError"), a)}
            ELSE UNION {
                   LET dcall == Call("ec2.describe_addresses", d.exc, d.code) IN
                   IF d.exc = "" /\ d.data = <<>>
                   THEN {Out(<<dcall>>, Ret("200", "Elastic IP not found"), a)}
                   ELSE IF d.exc = "ClientError" /\ d.code = "InvalidAddress.NotFound"
                   THEN {Out(<<dcall>>, Ret("200", "Elastic IP not found"), a)}
                   ELSE IF d.exc # ""
                   THEN {Out(<<dcall>>, Raise(d.exc), a)}
                   ELSE UNION {
                          IF x.value
                          THEN {Out(<<dcall>> \o x.calls,
                                    Ret("200", "Elastic IP excluded by tag"), a)}
                          ELSE {Out(<<dcall>> \o x.calls \o o.calls, o.result, o.aws) :
                                    o \in _release_address(d.data[1], a, c)}
                            : x \in _should_exclude(d.data[1], a, c)}
                     : d \in ec2_describe_addresses(a, eip)}

-----------------------------------------------------------------------------
(* IAM password policy: src/IAMPasswordPolicy/set_password_policy/app.py *)

DEFAULT_MIN_LENGTH == 12
DEFAULT_MAX_AGE == 90
DEFAULT_REUSE_PREVENTION == 12

PolicyFields ==
    {"MinimumPasswordLength", "RequireSymbols", "RequireNumbers",
     "RequireUppercaseCharacters", "RequireLowercaseCharacters",
     "AllowUsersToChangePassword", "PasswordReusePrevention", "MaxPasswordAge",
     "HardExpiry"}

\* iam.get_account_password_policy()['PasswordPolicy']
iam_get_account_password_policy(a) ==
    {AnsData("ClientError", "InternalFailure", a, EmptyDict)} \cup
    (IF a.hasPolicy
     THEN {AnsData("", "", a, a.policy)}
     ELSE {AnsData("ClientError", "NoSuchEntity", a, EmptyDict)})

\* iam.update_account_password_policy(**args): the account policy becomes args
iam_update_account_password_policy(a, args) ==
    {Fault(a), Ans("", "", [a EXCEPT !.hasPolicy = TRUE, !.policy = args])}

\* _get_current_policy: the call it makes, whether it raises, the dict it returns
_get_current_policy(a) ==
    {LET call == Call("iam.get_account_password_policy", r.exc, r.code) IN
     IF r.exc = ""
     THEN [calls |-> <<call>>, exc |-> "", value |-> r.data]
     ELSE IF r.code = "NoSuchEntity"
     THEN [calls |-> <<call>>, exc |-> "", value |-> EmptyDict]
     ELSE [calls |-> <<call>>, exc |-> r.exc, value |-> EmptyDict]
       : r \in iam_get_account_password_policy(a)}

\* a blind overwrite: the configured defaults, whatever the current policy holds
UpdateArgs_Blind(current_policy) ==
    [f \in PolicyFields |->
        CASE f = "MinimumPasswordLength" -> DEFAULT_MIN_LENGTH
          [] f = "PasswordReusePrevention" -> DEFAULT_REUSE_PREVENTION
          [] f = "MaxPasswordAge" -> DEFAULT_MAX_AGE
          [] f = "HardExpiry" -> FALSE
          [] OTHER -> TRUE]

\* the keyword arguments _update_password_policy passes
UpdateArgs(current_policy) ==
    [f \in PolicyFields |->
        CASE f = "MinimumPasswordLength" ->
                 Get(current_policy, "MinimumPasswordLength", DEFAULT_MIN_LENGTH)
          [] f = "RequireSymbols" -> TRUE
          [] f = "RequireNumbers" -> TRUE
          [] f = "RequireUppercaseCharacters" -> TRUE
          [] f = "RequireLowercaseCharacters" -> TRUE
          [] f = "AllowUsersToChangePassword" ->
                 Get(current_policy, "AllowUsersToChangePassword", TRUE)
          [] f = "PasswordReusePrevention" ->
                 Get(current_policy, "PasswordReusePrevention", DEFAULT_REUSE_PREVENTION)
          [] f = "MaxPasswordAge" ->
                 Get(current_policy, "MaxPasswordAge", DEFAULT_MAX_AGE)
          [] f = "HardExpiry" -> Get(current_policy, "HardExpiry", FALSE)]

_update_password_policy(current_policy, a) ==
    {LET call == Call("iam.update_account_password_policy", r.exc, r.code) IN
     IF r.exc = ""
     THEN Out(<<call>>, Ret("200", "Policy updated"), r.aws)
     ELSE Out(<<call>>, Raise(r.exc), r.aws)
       : r \in iam_update_account_password_policy(a, UpdateArgs(current_policy))}

policy_lambda_handler(event, a) ==
    IF ~Has(event, "detail")
    THEN {Out(<<>>, Raise("ValueError"), a)}
    ELSE LET check_status == Get(event["detail"], "status", None)
         IN IF check_status # "WARN"
            THEN {Out(<<>>, Ret("200", "No action needed"), a)}
            ELSE UNION {
                   IF g.exc # ""
                   THEN {Out(g.calls, Raise(g.exc), a)}
                   ELSE {Out(g.calls \o o.calls, o.result, o.aws) :
                             o \in _update_password_policy(g.value, a)}
                     : g \in _get_current_policy(a)}

-----------------------------------------------------------------------------
(* Incomplete multipart uploads:                                            *)
(* src/S3IncompleteMPUAbort/.../apply_lifecycle/app.py                      *)

LifecycleCheck == "Amazon S3 Bucket Lifecycle Configuration"
MpuCheck == "Amazon S3 Incomplete Multipart Upload Abort Configuration"

AbortDays == 7

\* the account the function runs in and another account with findings
CallerAccount == "111111111111"
OtherAccount == "222222222222"

\* the rule the handler appends
NewRule ==
    [ID |-> "AbortIncompleteMultipartUploads", Status |-> "Enabled",
     Filter |-> EmptyDict,
     AbortIncompleteMultipartUpload |-> [DaysAfterInitiation |-> AbortDays]]

\* Marshaller.unmarshall(event, AWSEvent) and the fields lambda_handler reads
\* from it (model.aws.ta is not among the sources)
Unmarshall(event) ==
    [check_name |-> event["detail"]["check-name"],
     bucket_name |-> Get(event["detail"]["check-item-detail"], "Bucket Name", None),
     account_id |-> event["account"],
     status |-> event["detail"]["status"]]

\* the decoding of the simplified event format
FlatDecode(event, c) ==
    LET detail == Get(event, "detail", EmptyDict) IN
    [check_name |-> Get(detail, "check-name", ""),
     bucket_name |-> Get(Get(detail, "check-item-detail", EmptyDict), "Bucket Name", None),
     account_id |-> Get(event, "account", c.CALLER_ACCOUNT),
     status |-> Get(detail, "status", "WARN")]

\* the first lines of lambda_handler
Decode(event, c) ==
    IF Has(event, "detail-type") THEN Unmarshall(event) ELSE FlatDecode(event, c)

\* sts.assume_role(RoleArn=arn:aws:iam::<role_account>:role/..., ExternalId=external_id):
\* granted when the account's role trusts the caller under its own account id
\* as external id; data is the account the credentials belong to
sts_assume_role(a, role_account, external_id) ==
    {AnsData("ClientError", "AccessDenied", a, None)} \cup
    (IF role_account \in a.trusting /\ external_id = CallerAccount
     THEN {AnsData("", "", a, role_account)} ELSE {})

\* the sts.assume_role call with the account of its RoleArn and its ExternalId
CallSts(exc, code, role_account, external_id) ==
    [api |-> "sts.assume_role", exc |-> exc, code |-> code,
     role_account |-> role_account, external_id |-> external_id]

\* an S3 call with the account whose credentials the client carries
CallS3(api, exc, code, creds) ==
    [api |-> api, exc |-> exc, code |-> code, creds |-> creds]

\* the put_bucket_lifecycle_configuration call with the rules it writes
CallPut(exc, code, creds, rules) ==
    [api |-> "s3.put_bucket_lifecycle_configuration", exc |-> exc, code |-> code,
     creds |-> creds, rules |-> rules]

\* s3.get_bucket_lifecycle_configuration(Bucket=bucket_name): data is Rules
s3_get_bucket_lifecycle_configuration(a, bucket_name) ==
    {AnsData("ClientError", "InternalFailure", a, <<>>)} \cup
    (IF bucket_name # BucketName \/ ~a.bucket
     THEN {AnsData("ClientError", "NoSuchBucket", a, <<>>)}
     ELSE IF a.rules = <<>>
     THEN {AnsData("ClientError", "NoSuchLifecycleConfiguration", a, <<>>)}
     ELSE {AnsData("", "", a, a.rules)})

UniqueIds(rules) ==
    \A i, j \in 1..Len(rules) : rules[i].ID = rules[j].ID => i = j

\* s3.put_bucket_lifecycle_configuration(Bucket=..., LifecycleConfiguration={'Rules': rules}):
\* replaces the bucket's rules; S3 rejects rule lists with a repeated ID
s3_put_bucket_lifecycle_configuration(a, bucket_name, rules) ==
    {Fault(a)} \cup
    (IF bucket_name # BucketName \/ ~a.bucket
     THEN {Ans("ClientError", "NoSuchBucket", a)}
     ELSE IF ~UniqueIds(rules)
     THEN {Ans("ClientError", "InvalidArgument", a)}
     ELSE {Ans("", "", [a EXCEPT !.rules = rules])})

\* a client that uses the caller's credentials where the account is not the
\* caller's and never assumes a role
_get_cross_account_client_Own(account_id, a, c) ==
    {[calls |-> <<>>, creds |-> c.CALLER_ACCOUNT]}

\* _get_cross_account_client: the call it makes and the client it returns,
\* held as the account whose credentials the client carries, None for no client
_get_cross_account_client(account_id, a, c) ==
    IF account_id = c.CALLER_ACCOUNT
    THEN {[calls |-> <<>>, creds |-> c.CALLER_ACCOUNT]}
    ELSE {[calls |-> <<CallSts(r.exc, r.code, account_id, c.CALLER_ACCOUNT)>>,
           creds |-> IF r.exc = "" THEN r.data ELSE None]
            : r \in sts_assume_role(a, account_id, c.CALLER_ACCOUNT)}

\* an already-present check that only counts enabled rules
RuleExists_EnabledOnly(rules) ==
    \E i \in 1..Len(rules) :
        /\ rules[i].Status = "Enabled"
        /\ Has(rules[i], "AbortIncompleteMultipartUpload")
        /\ rules[i]["AbortIncompleteMultipartUpload"]["DaysAfterInitiation"] = AbortDays

\* `any(r.get('AbortIncompleteMultipartUpload', {}).get('DaysAfterInitiation') == 7 ...)`
RuleExists(rules) ==
    \E i \in 1..Len(rules) :
        /\ Has(rules[i], "AbortIncompleteMultipartUpload")
        /\ rules[i]["AbortIncompleteMultipartUpload"]["DaysAfterInitiation"] = AbortDays

\* an append that first drops the rules that carry the new rule's ID
NewRules_DedupById(rules) ==
    Append(SelectSeq(rules, LAMBDA r : r.ID # NewRule.ID), NewRule)

\* `rules.append({...})`: the rule list the handler writes
NewRules(rules) == Append(rules, NewRule)

\* _apply_lifecycle_policy up to its decision to write: the calls it makes,
\* the client, whether it goes on to the put, and the rules it read
_apply_lifecycle_policy_read(account_id, bucket_name, a, c) ==
    UNION {
      IF s3.creds = None
      THEN {[calls |-> s3.calls, creds |-> None, proceed |-> FALSE, rules |-> <<>>]}
      ELSE {LET gcall == CallS3("s3.get_bucket_lifecycle_configuration",
                                g.exc, g.code, s3.creds)
                rules == IF g.exc = "" THEN g.data ELSE <<>>
            IN [calls |-> s3.calls \o <<gcall>>, creds |-> s3.creds,
                proceed |-> /\ (g.exc = "" \/ g.code = "NoSuchLifecycleConfiguration")
                            /\ ~RuleExists(rules),
                rules |-> rules]
              : g \in s3_get_bucket_lifecycle_configuration(a, bucket_name)}
        : s3 \in _get_cross_account_client(account_id, a, c)}

\* the rest of _apply_lifecycle_policy: the put of the rules read plus the
\* new rule; a ClientError is logged and swallowed
_apply_lifecycle_policy_put(creds, bucket_name, rules, a) ==
    {[calls |-> <<CallPut(p.exc, p.code, creds, NewRules(rules))>>, aws |-> p.aws]
        : p \in s3_put_bucket_lifecycle_configuration(a, bucket_name, NewRules(rules))}

\* _apply_lifecycle_policy: the calls it makes and the state it leaves; it
\* returns None on every path
_apply_lifecycle_policy(account_id, bucket_name, a, c) ==
    UNION {
      IF ~r.proceed
      THEN {[calls |-> r.calls, aws |-> a]}
      ELSE {[calls |-> r.calls \o w.calls, aws |-> w.aws]
              : w \in _apply_lifecycle_policy_put(r.creds, bucket_name, r.rules, a)}
        : r \in _apply_lifecycle_policy_read(account_id, bucket_name, a, c)}

\* a status gate that lets every status through
StatusIsWarn_Ungated(status) == status = status

\* `if status == "WARN"`
StatusIsWarn(status) == status = "WARN"

lifecycle_lambda_handler(event, a, c) ==
    LET f == Decode(event, c) IN
    IF f.check_name \notin {LifecycleCheck, MpuCheck}
    THEN {Out(<<>>, Ret("200", "Ignoring check"), a)}
    ELSE IF Falsy(f.bucket_name)
    THEN {Out(<<>>, Raise("ValueError"), a)}
    ELSE IF StatusIsWarn(f.status)
    THEN {Out(o.calls, Ret("200", "Processed bucket"), o.aws) :
              o \in _apply_lifecycle_policy(f.account_id, f.bucket_name, a, c)}
    ELSE {Out(<<>>, Ret("200", "Processed bucket"), a)}

-----------------------------------------------------------------------------
(* Webhook URLs and the HTTP POST of urllib *)

UrlPlaceholder == <<"<", "u", "r", "l", ">">>
UrlHttp == <<"h", "t", "t", "p", ":", "/", "/", "x">>
UrlHttps == <<"h", "t", "t", "p", "s", ":", "/", "/", "x">>
Urls == {<<>>, UrlPlaceholder, UrlHttp, UrlHttps}

\* str.startswith(prefix)
StartsWith(s, prefix) ==
    Len(s) >= Len(prefix) /\ SubSeq(s, 1, Len(prefix)) = prefix

\* urllib.request.Request(url, data) then urlopen(req, timeout=10): a URL with
\* no http(s) scheme is refused before anything is sent; a request that is
\* sent is delivered or fails
urlopen(url) ==
    IF StartsWith(url, <<"h", "t", "t", "p", ":", "/", "/">>)
       \/ StartsWith(url, <<"h", "t", "t", "p", "s", ":", "/", "/">>)
    THEN {[exc |-> "", code |-> "sent"], [exc |-> "URLError", code |-> "sent"]}
    ELSE {[exc |-> "ValueError", code |-> "unknown url type"]}

-----------------------------------------------------------------------------
(* Security notification: src/ExposedAccessKeys/lambda_functions/notify_security.py *)

NotifyFields ==
    {"account_id", "username", "deleted_key", "exposed_location", "time_discovered",
     "event_names", "resource_names", "resource_types"}

\* _publish_sns: the call it makes and whether it raises
_publish_sns(a) ==
    {[calls |-> <<Call("sns.publish", r.exc, r.code)>>, exc |-> r.exc]
        : r \in sns_publish(a)}

\* _notify_slack: the call it makes; every exception is caught
_notify_slack(c) ==
    IF c.SLACK_WEBHOOK_URL = <<>> THEN {<<>>}
    ELSE {<<Call("urlopen", r.exc, r.code)>> : r \in urlopen(c.SLACK_WEBHOOK_URL)}

notify_lambda_handler(event, a, c) ==
    IF ~(NotifyFields \subseteq DOMAIN event)
    THEN {Out(<<>>, Raise("KeyError"), a)}
    ELSE UNION {
           IF p.exc # ""
           THEN {Out(p.calls, Raise(p.exc), a)}
           ELSE IF c.SLACK_WEBHOOK_URL # <<>>
           THEN {Out(p.calls \o n, Ret("200", ""), a) : n \in _notify_slack(c)}
           ELSE {Out(p.calls, Ret("200", ""), a)}
             : p \in _publish_sns(a)}

-----------------------------------------------------------------------------
(* Slack summary:                                                           *)
(* src/TA-Integrations/TA-Red-Cost-Slack-Webhook/TA-Red-Slack-Webhook.py    *)

\* support.describe_trusted_advisor_checks / describe_trusted_advisor_check_summaries
support_describe(a) == {Ans("", "", a), Fault(a)}

\* _send_to_slack: the call it makes and whether it raises
_send_to_slack(webhook_url) ==
    {[calls |-> <<Call("urlopen", r.exc, r.code)>>, exc |-> r.exc]
        : r \in urlopen(webhook_url)}

slack_lambda_handler(event, a) ==
    LET slack_webhook_url == Get(event, "SlackWebhookURL", <<>>) IN
    IF slack_webhook_url = <<>> \/ StartsWith(slack_webhook_url, <<"<">>)
    THEN {Out(<<>>, Ret("400", "Invalid webhook URL"), a)}
    ELSE IF ~StartsWith(slack_webhook_url, <<"h", "t", "t", "p", "s", ":", "/", "/">>)
    THEN {Out(<<>>, Ret("400", "Webhook URL must use HTTPS"), a)}
    ELSE UNION {
           LET c1 == Call("support.describe_trusted_advisor_checks", r1.exc, r1.code) IN
           IF r1.exc # ""
           THEN {Out(<<c1>>, Raise(r1.exc), a)}
           ELSE UNION {
                  LET c2 == Call("support.describe_trusted_advisor_check_summaries",
                                 r2.exc, r2.code) IN
                  IF r2.exc # ""
                  THEN {Out(<<c1, c2>>, Raise(r2.exc), a)}
                  ELSE {IF s.exc # ""
                        THEN Out(<<c1, c2>> \o s.calls, Raise(s.exc), a)
                        ELSE Out(<<c1, c2>> \o s.calls, Ret("200", ""), a)
                          : s \in _send_to_slack(slack_webhook_url)}
                    : r2 \in support_describe(a)}
             : r1 \in support_describe(a)}

-----------------------------------------------------------------------------
(* Events each handler is invoked with *)

\* the dict f cut down to the keys in S
Restrict(f, S) == [k \in S |-> f[k]]

\* every dict holding some of the keys of the dicts in Fulls
SubDicts(Fulls) == UNION {{Restrict(f, S) : S \in SUBSET DOMAIN f} : f \in Fulls}

\* the Trusted Advisor envelope, whole or cut short
ItemEvents(items) ==
    {EmptyDict, [detail |-> EmptyDict]}
        \cup {[detail |-> Dict1("check-item-detail", it)] : it \in items}

DaysStrings == SeqsUpTo({"1", "4", "+"}, MaxDaysLen)

\* idle-RDS events: the region is always given, the name and the days may be missing
RdsEvents ==
    ItemEvents(
        {[k \in DOMAIN it \cup {"Region"} |->
             IF k = "Region" THEN "us-east-1" ELSE it[k]]
           : it \in SubDicts(
                 {[k \in {"DB Instance Name", "Days Since Last Connection"} |->
                      IF k = "DB Instance Name" THEN DbName ELSE d]
                    : d \in DaysStrings})})

KeyEvents ==
    LET items == SubDicts(
            {[k \in {"User Name (IAM or Root)", "Access Key ID", "Location"} |->
                 CASE k = "User Name (IAM or Root)" -> u
                   [] k = "Access Key ID" -> id
                   [] OTHER -> "https://example.test/repo"]
               : u \in {KeyUser, ""}, id \in {KeyId, <<>>}})
        bare == ItemEvents(items)
    IN bare \cup
       {[k \in {"account", "time", "detail"} |->
            CASE k = "detail" -> e["detail"] [] OTHER -> k]
          : e \in {x \in bare : Has(x, "detail")}}

BucketEvents ==
    ItemEvents(SubDicts({[k \in {"Bucket Name"} |-> b] : b \in {BucketName, ""}}))

EipEvents ==
    ItemEvents(SubDicts(
        {[k \in {"Region", "IP Address"} |->
             IF k = "Region" THEN r ELSE ip]
           : r \in {"us-east-1", ""}, ip \in {EipAddress, ""}}))

PolicyEvents ==
    {EmptyDict} \cup
    {[detail |-> d] : d \in {EmptyDict} \cup {[status |-> st] : st \in {"WARN", "OK", "ERROR"}}}

LifecycleDetails ==
    SubDicts({[k \in {"check-name", "status", "check-item-detail"} |->
                  CASE k = "check-name" -> n
                    [] k = "status" -> st
                    [] OTHER -> it]
                : n \in {MpuCheck, "Other check"}, st \in {"WARN", "OK"},
                  it \in {EmptyDict, [k2 \in {"Bucket Name"} |-> BucketName]}})

FlatEvents ==
    {EmptyDict, [account |-> OtherAccount]}
       \cup {[detail |-> d] : d \in LifecycleDetails}
       \cup {[account |-> OtherAccount, detail |-> d] : d \in LifecycleDetails}

RichEvents ==
    {[k \in {"detail-type", "account", "time", "detail"} |->
         CASE k = "detail" -> d
           [] k = "account" -> acct
           [] OTHER -> k]
       : acct \in {CallerAccount, OtherAccount},
         d \in {x \in LifecycleDetails :
                   DOMAIN x = {"check-name", "status", "check-item-detail"}}}

LifecycleEvents == FlatEvents \cup RichEvents

NotifyEvents ==
    LET full == [k \in NotifyFields |-> k]
    IN {full, Restrict(full, NotifyFields \ {"event_names"})}

SlackEvents == {EmptyDict} \cup {[SlackWebhookURL |-> u] : u \in Urls}

-----------------------------------------------------------------------------
(* Configurations and provider states the handlers start from *)

TagFalse == <<"f", "a", "l", "s", "e">>
TagFalseCap == <<"F", "a", "l", "s", "e">>
TagTrue == <<"t", "r", "u", "e">>

\* the defaults of the os.environ.get calls
DefaultCfg ==
    [MIN_AGE |-> DEFAULT_MIN_AGE, TERMINATION_METHOD |-> "stop", SNS_TOPIC_ARN |-> FALSE,
     EXCLUDE_TAG |-> "DisableVersioning",
     EXCLUDE_TAG_KEY |-> "TrustedAdvisorAutomate", EXCLUDE_TAG_VALUE |-> TagFalse,
     DRY_RUN |-> TRUE, SLACK_WEBHOOK_URL |-> <<>>, CALLER_ACCOUNT |-> CallerAccount]

DefaultAws ==
    [db |-> "available", snapshot |-> FALSE, key |-> "present",
     bucket |-> TRUE, tags |-> {}, versioning |-> "Suspended", rules |-> <<>>,
     trusting |-> {}, eip |-> "allocated", eipTags |-> {},
     hasPolicy |-> FALSE, policy |-> EmptyDict]

\* lifecycle rules a bucket may already hold
ExistingRules ==
    LET base == {[ID |-> "r1", Status |-> st, Filter |-> EmptyDict]
                    : st \in {"Enabled", "Disabled"}}
                \cup {[ID |-> id, Status |-> "Enabled", Filter |-> EmptyDict]
                         : id \in {"r2", "AbortIncompleteMultipartUploads"}}
    IN base \cup
       {[k \in {"ID", "Status", "Filter", "AbortIncompleteMultipartUpload"} |->
            IF k = "AbortIncompleteMultipartUpload"
            THEN [DaysAfterInitiation |-> n] ELSE b[k]]
          : b \in {x \in base : x.ID # "r2"}, n \in {3, AbortDays}}

RuleLists == {rs \in SeqsUpTo(ExistingRules, MaxRules) : UniqueIds(rs)}

\* two settings of every field of a password policy
PolicyLow ==
    [f \in PolicyFields |->
        CASE f = "MinimumPasswordLength" -> 8
          [] f = "PasswordReusePrevention" -> 5
          [] f = "MaxPasswordAge" -> 30
          [] OTHER -> FALSE]

PolicyHigh ==
    [f \in PolicyFields |->
        CASE f = "MinimumPasswordLength" -> 14
          [] f = "PasswordReusePrevention" -> 24
          [] f = "MaxPasswordAge" -> 60
          [] OTHER -> TRUE]

InitRds ==
    /\ handler = "rds"
    /\ \E m \in {DEFAULT_MIN_AGE, 42}, t \in {"stop", "delete"}, s \in BOOLEAN :
          cfg = [DefaultCfg EXCEPT !.MIN_AGE = m, !.TERMINATION_METHOD = t,
                                   !.SNS_TOPIC_ARN = s]
    /\ \E d \in {"available", "stopped", "absent"} : aws = [DefaultAws EXCEPT !.db = d]

InitKey ==
    /\ handler = "key"
    /\ cfg = DefaultCfg
    /\ \E k \in {"present", "absent"} : aws = [DefaultAws EXCEPT !.key = k]

InitVersioning ==
    /\ handler = "versioning"
    /\ \E t \in {"DisableVersioning", "KeepUnversioned"} :
          cfg = [DefaultCfg EXCEPT !.EXCLUDE_TAG = t]
    /\ \/ aws = [DefaultAws EXCEPT !.bucket = FALSE]
       \/ \E ts \in SUBSET {"DisableVersioning", "KeepUnversioned", "team"},
             v \in {"Suspended", "Enabled"} :
             aws = [DefaultAws EXCEPT !.tags = ts, !.versioning = v]

InitLifecycle ==
    /\ handler = "lifecycle"
    /\ cfg = DefaultCfg
    /\ \E tr \in {{}, {OtherAccount}} :
          \/ aws = [DefaultAws EXCEPT !.bucket = FALSE, !.trusting = tr]
          \/ \E rs \in RuleLists : aws = [DefaultAws EXCEPT !.rules = rs, !.trusting = tr]

InitEip ==
    /\ handler = "eip"
    /\ \E d \in BOOLEAN, v \in {TagFalse, TagFalseCap} :
          cfg = [DefaultCfg EXCEPT !.DRY_RUN = d, !.EXCLUDE_TAG_VALUE = v]
    /\ \/ aws = [DefaultAws EXCEPT !.eip = "released"]
       \/ \E own \in SUBSET {[Key |-> "Name", Value |-> TagFalse]},
             opt \in {{}} \cup {{[Key |-> "TrustedAdvisorAutomate", Value |-> v]}
                                   : v \in {TagFalse, TagFalseCap, TagTrue}} :
             aws = [DefaultAws EXCEPT !.eipTags = own \cup opt]

InitPolicy ==
    /\ handler = "policy"
    /\ cfg = DefaultCfg
    /\ \/ aws = DefaultAws
       \/ \E p \in SubDicts({PolicyLow, PolicyHigh}) :
             aws = [DefaultAws EXCEPT !.hasPolicy = TRUE, !.policy = p]

InitNotify ==
    /\ handler = "notify"
    /\ \E u \in Urls : cfg = [DefaultCfg EXCEPT !.SLACK_WEBHOOK_URL = u]
    /\ aws = DefaultAws

InitSlack ==
    /\ handler = "slack"
    /\ cfg = DefaultCfg
    /\ aws = DefaultAws

Init ==
    /\ \/ InitRds \/ InitKey \/ InitVersioning \/ InitLifecycle
       \/ InitEip \/ InitPolicy \/ InitNotify \/ InitSlack
    /\ pre = aws
    /\ inv = [ran |-> FALSE, event |-> EmptyDict, calls |-> <<>>, result |-> NoResult,
              logs |-> <<>>, redelivery |-> FALSE]
    /\ procs = <<>>

-----------------------------------------------------------------------------
(* One invocation *)

\* the invocation of the handler with event e went as o says; it is a
\* redelivery when the invocation before it had the same event and changed
\* the resource.  Log records are kept for the handler whose logging is
\* modelled.
Invoke(e, o) ==
    /\ aws' = o.aws
    /\ pre' = aws
    /\ inv' = [ran |-> TRUE, event |-> e, calls |-> o.calls, result |-> o.result,
               logs |-> IF "logs" \in DOMAIN o THEN o.logs ELSE <<>>,
               redelivery |-> inv.ran /\ inv.event = e /\ Applied(inv.calls)]
    /\ UNCHANGED <<handler, cfg, procs>>

InvokeRds ==
    /\ handler = "rds"
    /\ \E e \in RdsEvents : \E o \in rds_lambda_handler(e, aws, cfg) : Invoke(e, o)

InvokeKey ==
    /\ handler = "key"
    /\ \E e \in KeyEvents : \E o \in key_lambda_handler(e, aws) : Invoke(e, o)

InvokeVersioning ==
    /\ handler = "versioning"
    /\ \E e \in BucketEvents : \E o \in versioning_lambda_handler(e, aws, cfg) : Invoke(e, o)

InvokeLifecycle ==
    /\ handler = "lifecycle"
    /\ \E e \in LifecycleEvents : \E o \in lifecycle_lambda_handler(e, aws, cfg) : Invoke(e, o)

InvokeEip ==
    /\ handler = "eip"
    /\ \E e \in EipEvents : \E o \in eip_lambda_handler(e, aws, cfg) : Invoke(e, o)

InvokePolicy ==
    /\ handler = "policy"
    /\ \E e \in PolicyEvents : \E o \in policy_lambda_handler(e, aws) : Invoke(e, o)

InvokeNotify ==
    /\ handler = "notify"
    /\ \E e \in NotifyEvents : \E o \in notify_lambda_handler(e, aws, cfg) : Invoke(e, o)

InvokeSlack ==
    /\ handler = "slack"
    /\ \E e \in SlackEvents : \E o \in slack_lambda_handler(e, aws) : Invoke(e, o)

Next ==
    \/ InvokeRds \/ InvokeKey \/ InvokeVersioning \/ InvokeLifecycle
    \/ InvokeEip \/ InvokePolicy \/ InvokeNotify \/ InvokeSlack

Spec == Init /\ [][Next]_vars

-----------------------------------------------------------------------------
(* Two concurrent invocations for the same finding.  Lambda runs each        *)
(* invocation in its own execution environment and the handlers take no     *)
(* lock, so the provider calls of the two interleave freely.  A step is one *)
(* provider call that can touch the resource together with the local code   *)
(* and the reads around it.                                                 *)

\* the findings delivered twice: events the handler acts on
ConcLifecycleEvents ==
    {e \in LifecycleEvents :
        LET f == Decode(e, DefaultCfg) IN
        /\ f.check_name \in {LifecycleCheck, MpuCheck}
        /\ ~Falsy(f.bucket_name)
        /\ StatusIsWarn(f.status)}

ConcKeyEvents ==
    {e \in KeyEvents :
        /\ HasItemDetail(e) /\ Has(e, "account") /\ Has(e, "time")
        /\ ~Falsy(Get(e["detail"]["check-item-detail"], "User Name (IAM or Root)", None))
        /\ ~FalsySeq(Get(e["detail"]["check-item-detail"], "Access Key ID", NoneSeq))}

ConcRdsEvents ==
    {e \in RdsEvents :
        /\ HasItemDetail(e)
        /\ Has(e["detail"]["check-item-detail"], "DB Instance Name")
        /\ IsIntLiteral(Strip(DaysField(e), "+"))}

\* an invocation that has not made a call yet
Proc(e) ==
    [pc |-> "start", event |-> e, calls |-> <<>>, result |-> NoResult,
     creds |-> None, rules |-> <<>>]

InitConc ==
    /\ \/ InitLifecycle /\ \E e \in ConcLifecycleEvents : procs = [p \in {1, 2} |-> Proc(e)]
       \/ InitKey /\ \E e \in ConcKeyEvents : procs = [p \in {1, 2} |-> Proc(e)]
       \/ InitRds /\ \E e \in ConcRdsEvents : procs = [p \in {1, 2} |-> Proc(e)]
    /\ pre = aws
    /\ inv = [ran |-> FALSE, event |-> EmptyDict, calls |-> <<>>, result |-> NoResult,
              logs |-> <<>>, redelivery |-> FALSE]

\* lambda_handler and _apply_lifecycle_policy up to the already-present
\* check: the client, the get and the decision
ConcRead(p) ==
    /\ handler = "lifecycle" /\ procs[p].pc = "start"
    /\ LET f == Decode(procs[p].event, cfg) IN
       \E r \in _apply_lifecycle_policy_read(f.account_id, f.bucket_name, aws, cfg) :
          procs' = [procs EXCEPT ![p] =
                      [pc |-> IF r.proceed THEN "put" ELSE "done",
                       event |-> procs[p].event,
                       calls |-> r.calls,
                       result |-> IF r.proceed THEN NoResult
                                  ELSE Ret("200", "Processed bucket"),
                       creds |-> r.creds, rules |-> r.rules]]
    /\ UNCHANGED <<handler, cfg, aws, pre, inv>>

\* the rest of _apply_lifecycle_policy and of lambda_handler: the put of
\* the rules this invocation read, as they were when it read them
ConcPut(p) ==
    /\ handler = "lifecycle" /\ procs[p].pc = "put"
    /\ LET f == Decode(procs[p].event, cfg) IN
       \E w \in _apply_lifecycle_policy_put(procs[p].creds, f.bucket_name,
                                             procs[p].rules, aws) :
          /\ aws' = w.aws
          /\ procs' = [procs EXCEPT ![p].pc = "done",
                                    ![p].calls = procs[p].calls \o w.calls,
                                    ![p].result = Ret("200", "Processed bucket")]
    /\ UNCHANGED <<handler, cfg, pre, inv>>

\* the key-deletion handler makes one provider call
ConcKey(p) ==
    /\ handler = "key" /\ procs[p].pc = "start"
    /\ \E o \in key_lambda_handler(procs[p].event, aws) :
          /\ aws' = o.aws
          /\ procs' = [procs EXCEPT ![p].pc = "done", ![p].calls = o.calls,
                                    ![p].result = o.result]
    /\ UNCHANGED <<handler, cfg, pre, inv>>

\* the idle-RDS handler makes one call on the instance, then notifies
ConcRds(p) ==
    /\ handler = "rds" /\ procs[p].pc = "start"
    /\ \E o \in rds_lambda_handler(procs[p].event, aws, cfg) :
          /\ aws' = o.aws
          /\ procs' = [procs EXCEPT ![p].pc = "done", ![p].calls = o.calls,
                                    ![p].result = o.result]
    /\ UNCHANGED <<handler, cfg, pre, inv>>

NextConc ==
    \E p \in {1, 2} : ConcRead(p) \/ ConcPut(p) \/ ConcKey(p) \/ ConcRds(p)

SpecConc == InitConc /\ [][NextConc]_vars

-----------------------------------------------------------------------------
(* Properties *)

\* a call of the last invocation failed with an error no handler expects
Unexpected(calls) ==
    \E i \in 1..Len(calls) :
        calls[i].exc = "ClientError" /\ calls[i].code \in {"InternalFailure", "AccessDenied"}

\* the last invocation returned {'statusCode': 200, ...}
Returned200 == ~inv.result.raised /\ inv.result.statusCode = "200"

\* the last invocation returned normally: a 200, or the key handler's report
ReturnedSuccess == ~inv.result.raised /\ inv.result.statusCode \in {"200", "none"}

\* the check-item-detail of the last event, {} when the event has none
LastItem == Get(Get(inv.event, "detail", EmptyDict), "check-item-detail", EmptyDict)

\* C1: idempotence under redelivery.  When a remediation handler is invoked
\* again with the event of an invocation that changed the resource, and the
\* provider answers from the resource's state alone, the invocation returns a
\* success result and leaves the resource as it found it.
C1_IdempotentRedelivery ==
    (/\ handler \in {"rds", "key", "versioning", "lifecycle", "eip"}
     /\ inv.redelivery
     /\ ~Unexpected(inv.calls))
        => ReturnedSuccess /\ aws = pre

\* the days the last idle-RDS event carries, stripped of '+' at both ends
LastDays == Strip(DaysField(inv.event), "+")

\* C2: threshold guard of the idle-RDS handler.  Below MIN_AGE the handler
\* returns 200 having made no call at all; at or above MIN_AGE it makes exactly
\* one mutating call, delete_db_instance when TERMINATION_METHOD is 'delete'
\* and stop_db_instance otherwise; a delete that the provider accepts leaves
\* the final snapshot.  Spelled out for "4" and "14+" against the default
\* threshold of 14.
C2_ThresholdGuard ==
    (handler = "rds" /\ inv.ran /\ HasItemDetail(inv.event) /\ IsIntLiteral(LastDays))
        => /\ PyInt(LastDays) < cfg.MIN_AGE
                => Returned200 /\ inv.calls = <<>>
           /\ PyInt(LastDays) >= cfg.MIN_AGE
                => /\ Cardinality(Mutations(inv.calls)) = 1
                   /\ inv.calls[1].api =
                        IF cfg.TERMINATION_METHOD = "delete"
                        THEN "rds.delete_db_instance" ELSE "rds.stop_db_instance"
                   /\ (cfg.TERMINATION_METHOD = "delete" /\ inv.calls[1].exc = "")
                        => aws.db = "absent" /\ aws.snapshot
           /\ (DaysField(inv.event) = <<"4">> /\ cfg.MIN_AGE = DEFAULT_MIN_AGE)
                => inv.calls = <<>>
           /\ (DaysField(inv.event) = <<"1", "4", "+">> /\ cfg.MIN_AGE = DEFAULT_MIN_AGE)
                => Mutations(inv.calls) = {1}

\* an instance idle for exactly MIN_AGE days ("14+") was deleted, and the
\* notification went out
C2_Witness ==
    /\ handler = "rds" /\ inv.ran /\ HasItemDetail(inv.event)
    /\ DaysField(inv.event) = <<"1", "4", "+">>
    /\ cfg.MIN_AGE = DEFAULT_MIN_AGE /\ cfg.TERMINATION_METHOD = "delete"
    /\ pre.db = "available" /\ aws.db = "absent" /\ aws.snapshot
    /\ Len(inv.calls) = 2 /\ inv.calls[1].api = "rds.delete_db_instance"

\* the last EIP or versioning invocation got as far as reading the tags
ReadTags ==
    \E i \in 1..Len(inv.calls) :
        inv.calls[i].api \in {"s3.get_bucket_tagging", "ec2.describe_tags"}

\* C3: exclusion guard.  Whenever the resource carries the configured
\* exclusion tag and the handler gets to read its tags, the handler returns
\* 200 with an 'excluded' outcome and makes no mutating call, whatever the
\* configured tag value and however the tag-reading call ends.
C3_ExclusionGuard ==
    /\ (/\ handler = "versioning" /\ inv.ran /\ ReadTags
        /\ pre.bucket /\ cfg.EXCLUDE_TAG \in pre.tags)
          => /\ Returned200
             /\ inv.result.body = "Bucket versioning intentionally disabled"
             /\ Mutations(inv.calls) = {}
    /\ (/\ handler = "eip" /\ inv.ran /\ ReadTags
        /\ [Key |-> cfg.EXCLUDE_TAG_KEY, Value |-> cfg.EXCLUDE_TAG_VALUE] \in pre.eipTags)
          => /\ Returned200
             /\ inv.result.body = "Elastic IP excluded by tag"
             /\ Mutations(inv.calls) = {}

\* C4: notification is best-effort.  When a delivery call (SNS publish, webhook
\* POST) of the last invocation failed, the invocation still returned the 200
\* it returns when delivery succeeds, and nothing was raised.
C4_NotificationBestEffort ==
    (inv.ran /\ \E i \in Publishes(inv.calls) : inv.calls[i].exc # "")
        => Returned200

\* the last invocation updated the password policy
PolicyUpdated ==
    /\ handler = "policy" /\ inv.ran
    /\ \E i \in Mutations(inv.calls) : inv.calls[i].exc = ""

\* the policy the last invocation read: {} when the account had none
PolicyRead == IF pre.hasPolicy THEN pre.policy ELSE EmptyDict

\* the configured default of each field
PolicyDefault(f) ==
    CASE f = "MinimumPasswordLength" -> DEFAULT_MIN_LENGTH
      [] f = "PasswordReusePrevention" -> DEFAULT_REUSE_PREVENTION
      [] f = "MaxPasswordAge" -> DEFAULT_MAX_AGE
      [] f = "HardExpiry" -> FALSE
      [] OTHER -> TRUE

RequireFields ==
    {"RequireSymbols", "RequireNumbers", "RequireUppercaseCharacters",
     "RequireLowercaseCharacters"}

\* C5 as stated: every field present in the policy read is written back with
\* its current value, and only absent fields receive a default.
C5_EveryFieldPreserved ==
    PolicyUpdated =>
        \A f \in PolicyFields :
            aws.policy[f] = IF Has(PolicyRead, f) THEN PolicyRead[f] ELSE PolicyDefault(f)

\* C5, amended: MinimumPasswordLength, AllowUsersToChangePassword,
\* PasswordReusePrevention, MaxPasswordAge and HardExpiry are written back with
\* their current value when the policy read holds them and with the configured
\* default otherwise; the four Require* fields are always written as True.
C5_MergeUpdate ==
    PolicyUpdated =>
        /\ DOMAIN aws.policy = PolicyFields
        /\ \A f \in PolicyFields \ RequireFields :
              aws.policy[f] = IF Has(PolicyRead, f) THEN PolicyRead[f] ELSE PolicyDefault(f)
        /\ \A f \in RequireFields : aws.policy[f] = TRUE

\* a policy that held non-default values and no HardExpiry was updated
C5_Witness ==
    /\ PolicyUpdated /\ pre.hasPolicy
    /\ Has(pre.policy, "MaxPasswordAge") /\ pre.policy["MaxPasswordAge"] = 30
    /\ Has(pre.policy, "RequireSymbols") /\ pre.policy["RequireSymbols"] = FALSE
    /\ ~Has(pre.policy, "HardExpiry")
    /\ aws.policy["MaxPasswordAge"] = 30 /\ aws.policy["RequireSymbols"] = TRUE

\* the reads that only decide an opt-out
TagReadApis == {"s3.get_bucket_tagging", "ec2.describe_tags"}

\* C6: unexpected provider errors are fatal.  When a provider read or mutate
\* call on the target resource (not a notification, and the tag reads of the
\* exclusion guard aside) failed in the last invocation with an error code no
\* handler expects, the invocation raised.
C6_UnexpectedErrorsFatal ==
    (inv.ran /\ \E i \in 1..Len(inv.calls) :
                    /\ inv.calls[i].api \notin NotifyApis \cup TagReadApis
                    /\ inv.calls[i].exc = "ClientError"
                    /\ inv.calls[i].code = "InternalFailure")
        => inv.result.raised

\* call i of the last invocation told the handler that its target is gone
ReportsGone(i) ==
    LET call == inv.calls[i] IN
    \/ call.code \in {"DBInstanceNotFound", "InvalidAddress.NotFound", "NoSuchBucket"}
    \/ call.api = "iam.delete_access_key" /\ call.code = "NoSuchEntity"
    \/ call.api = "ec2.describe_addresses" /\ call.exc = "" /\ inv.calls = <<call>>

\* C7: resource-not-found is non-fatal.  When a call of the last invocation
\* reported the target resource gone, the invocation returned a success result
\* and made no mutating call after that report.
C7_NotFoundNonFatal ==
    inv.ran =>
        \A i \in 1..Len(inv.calls) :
            ReportsGone(i) =>
                /\ ReturnedSuccess
                /\ \A j \in Mutations(inv.calls) : j <= i

\* C8: at most one mutating provider call per invocation, on every path,
\* provider errors included.
C8_AtMostOneMutation == Cardinality(Mutations(inv.calls)) <= 1

\* a release that failed with an unexpected error was not tried again
C8_Witness ==
    /\ handler = "eip" /\ inv.ran /\ inv.result.raised
    /\ Len(inv.calls) = 3
    /\ inv.calls[3] = Call("ec2.release_address", "ClientError", "InternalFailure")

\* the last event lacks the envelope or a field its handler requires
LacksRequired ==
    \/ ~HasItemDetail(inv.event)
    \/ handler \in {"versioning", "lifecycle"} /\ Falsy(Get(LastItem, "Bucket Name", None))
    \/ handler = "eip" /\ (\/ Falsy(Get(LastItem, "Region", None))
                           \/ Falsy(Get(LastItem, "IP Address", None)))
    \/ handler = "key" /\ (\/ Falsy(Get(LastItem, "User Name (IAM or Root)", None))
                           \/ FalsySeq(Get(LastItem, "Access Key ID", NoneSeq)))

\* C9: validation precedes every provider call.  An event that lacks the
\* detail/check-item-detail structure or a required field makes the handler
\* raise, with no provider call made.
C9_ValidationFirst ==
    (/\ handler \in {"versioning", "lifecycle", "eip", "key"}
     /\ inv.ran /\ LacksRequired)
        => /\ inv.result.raised
           /\ inv.result.exc \in {"ValueError", "KeyError"}
           /\ inv.calls = <<>>

\* the status the last event carries, None when it carries none
LastStatus == Get(Get(inv.event, "detail", EmptyDict), "status", None)

\* C10: status gate of the password-policy and lifecycle handlers.  A mutating
\* call is made only when the finding's status is WARN (the lifecycle handler
\* reads a flat event without a status as WARN); with any other status the
\* handler makes no provider call, and every event that passes validation
\* returns 200.  A password-policy event whose detail has no status is among
\* them.
C10_StatusGate ==
    /\ (handler = "policy" /\ inv.ran /\ Has(inv.event, "detail"))
          => /\ Mutations(inv.calls) # {} => LastStatus = "WARN"
             /\ LastStatus # "WARN" => Returned200 /\ inv.calls = <<>>
    /\ (handler = "lifecycle" /\ inv.ran)
          => /\ Mutations(inv.calls) # {}
                  => \/ LastStatus = "WARN"
                     \/ LastStatus = None /\ ~Has(inv.event, "detail-type")
             /\ LastStatus \notin {"WARN", None}
                  => /\ inv.calls = <<>>
                     /\ \/ Returned200
                        \/ /\ inv.result.raised /\ inv.result.exc = "ValueError"
                           /\ Falsy(Get(LastItem, "Bucket Name", None))
             /\ (/\ LastStatus \notin {"WARN", None}
                 /\ ~Falsy(Get(LastItem, "Bucket Name", None)))
                  => Returned200

\* a lifecycle finding with status OK for a bucket without the rule was
\* processed without a call
C10_Witness ==
    /\ handler = "lifecycle" /\ inv.ran
    /\ LastStatus = "OK"
    /\ Get(Get(inv.event, "detail", EmptyDict), "check-name", "") = MpuCheck
    /\ Get(LastItem, "Bucket Name", None) = BucketName
    /\ aws.bucket /\ ~RuleExists(aws.rules)
    /\ Returned200 /\ inv.calls = <<>>

\* the webhook URL the last invocation had to hand: the configured one for
\* the security notification, the event's for the Slack summary
LastWebhookUrl ==
    IF handler = "notify" THEN cfg.SLACK_WEBHOOK_URL
    ELSE Get(inv.event, "SlackWebhookURL", <<>>)

\* a URL no POST may go to
BadWebhookUrl(url) ==
    \/ url = <<>>
    \/ StartsWith(url, <<"<">>)
    \/ ~StartsWith(url, <<"h", "t", "t", "p", "s", ":", "/", "/">>)

\* the last invocation sent a webhook request, delivered or not
Posted == \E i \in 1..Len(inv.calls) :
              inv.calls[i].api = "urlopen" /\ inv.calls[i].code = "sent"

\* C11: webhook URL validation.  No webhook POST is sent to a URL that is
\* empty, starts with '<' or does not start with 'https://', by the Slack
\* summary handler or by the Slack push of the security notification; the
\* Slack summary handler rejects such a URL before any provider call.
C11_WebhookUrlValidated ==
    (inv.ran /\ handler \in {"notify", "slack"})
        => /\ Posted => ~BadWebhookUrl(LastWebhookUrl)
           /\ (handler = "slack" /\ BadWebhookUrl(LastWebhookUrl)) => inv.calls = <<>>

\* the access key id the last key-deletion event carries, None when it
\* carries none
LastKeyId == Get(LastItem, "Access Key ID", NoneSeq)

\* C12: credential masking.  On every path of the key-deletion handler, a log
\* record that carries the access key id carries only its first 8 characters
\* followed by '***', never the id in full.
C12_KeyIdMasked ==
    (handler = "key" /\ inv.ran /\ ~FalsySeq(LastKeyId))
        => \A i \in 1..Len(inv.logs) :
              Has(inv.logs[i].extra, "access_key_id")
                 => /\ inv.logs[i].extra["access_key_id"] # LastKeyId
                    /\ inv.logs[i].extra["access_key_id"] = Mask(LastKeyId)

\* the finding the lifecycle handler decoded from the last event
LastFinding == Decode(inv.event, cfg)

\* the last lifecycle invocation got past the check-name filter, the bucket
\* validation and the status gate for another account's bucket
CrossAccountRun ==
    /\ handler = "lifecycle" /\ inv.ran
    /\ LastFinding.check_name \in {LifecycleCheck, MpuCheck}
    /\ ~Falsy(LastFinding.bucket_name)
    /\ LastFinding.status = "WARN"
    /\ LastFinding.account_id # cfg.CALLER_ACCOUNT

S3Calls(calls) ==
    {i \in 1..Len(calls) :
        calls[i].api \in {"s3.get_bucket_lifecycle_configuration",
                          "s3.put_bucket_lifecycle_configuration"}}

\* C13: cross-account access in the lifecycle handler.  For a finding of
\* another account the first call is assume_role with the finding's account in
\* the role ARN and the caller's account id as ExternalId; every S3 call is
\* made with the credentials that call returned; when it fails there is no S3
\* call and the handler returns 200.
C13_CrossAccountAccess ==
    CrossAccountRun =>
        /\ inv.calls # <<>>
        /\ inv.calls[1].api = "sts.assume_role"
        /\ inv.calls[1].role_account = LastFinding.account_id
        /\ inv.calls[1].external_id = cfg.CALLER_ACCOUNT
        /\ \A i \in S3Calls(inv.calls) :
              /\ i > 1
              /\ inv.calls[1].exc = ""
              /\ inv.calls[i].creds = LastFinding.account_id
        /\ inv.calls[1].exc # "" => S3Calls(inv.calls) = {}
        /\ Returned200

\* another account's bucket got the rule through the assumed role
C13_Witness ==
    /\ CrossAccountRun
    /\ Len(inv.calls) = 3
    /\ inv.calls[1].exc = ""
    /\ inv.calls[3].api = "s3.put_bucket_lifecycle_configuration"
    /\ inv.calls[3].exc = ""
    /\ inv.calls[3].creds = OtherAccount
    /\ aws.rules = Append(pre.rules, NewRule)

\* the last lifecycle invocation handled a WARN finding: it got past the
\* check-name filter, the bucket validation and the status gate
WarnRun ==
    /\ handler = "lifecycle" /\ inv.ran
    /\ LastFinding.check_name \in {LifecycleCheck, MpuCheck}
    /\ ~Falsy(LastFinding.bucket_name)
    /\ LastFinding.status = "WARN"

\* the last invocation read the bucket's lifecycle configuration: the get
\* returned the rules or reported that the bucket has none
ReadConfiguration ==
    \E i \in 1..Len(inv.calls) :
        /\ inv.calls[i].api = "s3.get_bucket_lifecycle_configuration"
        /\ inv.calls[i].exc = "" \/ inv.calls[i].code = "NoSuchLifecycleConfiguration"

Puts(calls) ==
    {i \in 1..Len(calls) : calls[i].api = "s3.put_bucket_lifecycle_configuration"}

\* the bucket held, when the last invocation started, a rule that aborts
\* incomplete uploads after 7 days
HeldAbortRule ==
    \E i \in 1..Len(pre.rules) :
        /\ "AbortIncompleteMultipartUpload" \in DOMAIN pre.rules[i]
        /\ pre.rules[i]["AbortIncompleteMultipartUpload"]["DaysAfterInitiation"] = 7

\* C14: already-correct guard of the lifecycle handler.  For a WARN finding
\* whose bucket holds a rule with DaysAfterInitiation 7, whatever that rule's
\* ID, filter or status, no put is issued; when the handler has read the
\* configuration and it holds no such rule (or the bucket has no
\* configuration), exactly one put is issued.
C14_AlreadyCorrectGuard ==
    WarnRun =>
        /\ (pre.bucket /\ HeldAbortRule) => Puts(inv.calls) = {}
        /\ (ReadConfiguration /\ ~HeldAbortRule)
              => Cardinality(Puts(inv.calls)) = 1

\* a bucket whose only abort-after-7-days rule is a disabled one named r1 was
\* left alone
C14_Witness ==
    /\ WarnRun /\ ReadConfiguration
    /\ \E i \in 1..Len(pre.rules) :
          /\ pre.rules[i].ID = "r1" /\ pre.rules[i].Status = "Disabled"
          /\ Has(pre.rules[i], "AbortIncompleteMultipartUpload")
          /\ pre.rules[i]["AbortIncompleteMultipartUpload"]["DaysAfterInitiation"] = AbortDays
    /\ \A i \in 1..Len(pre.rules) : pre.rules[i].Status = "Disabled"
    /\ Puts(inv.calls) = {} /\ aws = pre

\* the last lifecycle event is a flat one that carries an account, a status
\* and a bucket name
FlatFinding ==
    /\ handler = "lifecycle" /\ inv.ran
    /\ ~Has(inv.event, "detail-type")
    /\ Has(inv.event, "account") /\ Has(inv.event, "detail")
    /\ Has(inv.event["detail"], "status")
    /\ Has(inv.event["detail"], "check-item-detail")
    /\ Has(inv.event["detail"]["check-item-detail"], "Bucket Name")

\* the rich event r carries the bucket name, account and status of the last event
SameFields(r) ==
    /\ r["account"] = inv.event["account"]
    /\ r["detail"]["status"] = inv.event["detail"]["status"]
    /\ r["detail"]["check-item-detail"] = inv.event["detail"]["check-item-detail"]
    /\ r["detail"]["check-name"] \in {LifecycleCheck, MpuCheck}

\* C15: envelope-shape equivalence in the lifecycle handler.  A flat event
\* and a rich event of the handler's check that carry the same bucket name,
\* account and status decode to the same finding and drive the handler to the
\* same calls and result; a flat event of the form
\* {account, detail: {check-item-detail, status: WARN}} is processed, not ignored.
C15_EnvelopeEquivalence ==
    FlatFinding =>
        /\ \A r \in RichEvents :
              SameFields(r) =>
                 /\ Decode(r, cfg) = Decode(inv.event, cfg)
                 /\ lifecycle_lambda_handler(r, pre, cfg)
                        = lifecycle_lambda_handler(inv.event, pre, cfg)
        /\ (inv.event["detail"]["status"] = "WARN"
             /\ ~Has(inv.event["detail"], "check-name"))
              => inv.result.body # "Ignoring check" /\ inv.calls # <<>>

\* C17: lifecycle append preserves existing rules.  Every put the lifecycle
\* handler issues writes the rules the bucket held, in their order and
\* unmodified, followed by one rule with ID 'AbortIncompleteMultipartUploads',
\* Status 'Enabled', an empty filter and DaysAfterInitiation 7; a put that the
\* provider accepts leaves the bucket with exactly that list.
C17_AppendPreservesRules ==
    (handler = "lifecycle" /\ inv.ran) =>
        \A i \in Puts(inv.calls) :
            /\ inv.calls[i].rules =
                   pre.rules \o
                   <<[ID |-> "AbortIncompleteMultipartUploads", Status |-> "Enabled",
                      Filter |-> <<>>,
                      AbortIncompleteMultipartUpload |-> [DaysAfterInitiation |-> 7]]>>
            /\ inv.calls[i].exc = "" => aws.rules = inv.calls[i].rules

\* a rule list that repeats the ID 'AbortIncompleteMultipartUploads' was
\* handed to the provider: the rule of that name with another setting was kept
C17_Witness ==
    /\ handler = "lifecycle" /\ inv.ran
    /\ \E i \in Puts(inv.calls) :
          /\ Len(inv.calls[i].rules) = 2
          /\ inv.calls[i].rules[1].ID = "AbortIncompleteMultipartUploads"
          /\ inv.calls[i].rules[2].ID = "AbortIncompleteMultipartUploads"

\* the SNS publishes of an invocation
SnsPublishes(calls) == {i \in 1..Len(calls) : calls[i].api = "sns.publish"}

\* C18: in the idle-RDS handler a notification follows a successful mutation
\* only.  Every SNS publish of an invocation comes directly after the
\* stop_db_instance or delete_db_instance call of that invocation, and that
\* call returned successfully; there is no publish below the threshold, when
\* the instance was not found or already stopped, or when the mutating call
\* failed; an invocation publishes at most once.
C18_NotifyAfterSuccessOnly ==
    (handler = "rds" /\ inv.ran) =>
        /\ Cardinality(SnsPublishes(inv.calls)) <= 1
        /\ \A i \in SnsPublishes(inv.calls) :
              /\ i = 2
              /\ inv.calls[1].api \in {"rds.stop_db_instance", "rds.delete_db_instance"}
              /\ inv.calls[1].exc = ""
              /\ aws.db # pre.db
        /\ inv.result.body \in {"Below threshold, no action taken", "DB instance not found",
                                "DB instance already stopped"}
              => SnsPublishes(inv.calls) = {}
        /\ inv.result.raised => SnsPublishes(inv.calls) = {}

\* an available instance was stopped and the notification went out
C18_Witness ==
    /\ handler = "rds" /\ inv.ran /\ cfg.SNS_TOPIC_ARN
    /\ inv.calls = <<Call("rds.stop_db_instance", "", ""), Call("sns.publish", "", "")>>
    /\ pre.db = "available" /\ aws.db = "stopped"

\* both concurrent invocations have returned or raised
BothDone == procs # <<>> /\ \A p \in DOMAIN procs : procs[p].pc = "done"

\* a call in calls failed for a reason that has nothing to do with the resource
Failed(calls) == \E i \in 1..Len(calls) : calls[i].code = "InternalFailure"

\* the event both concurrent invocations were given
ConcEvent == procs[1].event

\* the states one invocation alone can leave the resource in, started where
\* the two concurrent ones started
AfterOne ==
    LET outs == CASE handler = "lifecycle" -> lifecycle_lambda_handler(ConcEvent, pre, cfg)
                  [] handler = "key" -> key_lambda_handler(ConcEvent, pre)
                  [] handler = "rds" -> rds_lambda_handler(ConcEvent, pre, cfg)
    IN {o.aws : o \in {x \in outs : ~Failed(x.calls)}}

\* C16: concurrent duplicate delivery is harmless.  When two invocations for
\* the same finding have run concurrently and no call met a provider failure,
\* the resource is in a state a single invocation leaves it in (lifecycle: the
\* rules it held plus at most one new rule) and neither invocation raised.
C16_ConcurrentDuplicateHarmless ==
    (BothDone /\ \A p \in DOMAIN procs : ~Failed(procs[p].calls))
        => /\ \A p \in DOMAIN procs : ~procs[p].result.raised
           /\ aws \in AfterOne
           /\ handler = "lifecycle"
                => aws.rules \in {pre.rules, Append(pre.rules, NewRule)}

=============================================================================
